---- MODULE Spec2Model ----
(***************************************************************************)
(* Model of the hackbar background script (src/eslint-config/typescript.js *)
(* lines 45-327): the control-channel router (handleMessage), the capture  *)
(* listener (onBeforeRequest), the encoding resolver (onBeforeSendHeaders),*)
(* the lifecycle manager (handleResponseCompleted) and the tab-removal     *)
(* listener, running against the host's session-rule table, its request   *)
(* events and its asynchronous calls.                                      *)
(***************************************************************************)
EXTENDS Integers, Sequences, FiniteSets, TLC

VARIABLES
  browseRequests,  \* tabStore: tabId -> captured request snapshot (partial map)
  connections,     \* tabStore: tabId -> control-channel peer (partial map)
  sessionRules,    \* host: the declarativeNetRequest session rule table
  dnr,             \* host: updateSessionRules calls issued and not yet settled
  handlers,        \* the invocations of handleMessage in flight, by identity
  req,             \* host: the main-frame request in flight in each tab
  nav,             \* host: replay navigation triggered and not yet initiated
  injected,        \* page: tabs into which an extension script was injected
  closed,          \* host: tabs that were removed
  ports,           \* control-channel ports: "new", "open" or "gone"
  last             \* observation: the handler step just taken and its outcome

vars == <<browseRequests, connections, sessionRules, dnr, handlers,
          req, nav, injected, closed, ports, last>>

\* ------------------------------------------------------------------ bounds

MaxTabs == 2
MaxPeers == 1
MaxHandlers == 1
MaxDnr == 1
MaxHeaders == 2
MaxSegments == 2

Tabs == 1..MaxTabs
Peers == 1..MaxPeers

\* ------------------------------------------------------- helpers (maps)

Range(s) == {s[i] : i \in DOMAIN s}

\* obj[k] = v on a JavaScript record
Put(f, k, v) == [x \in (DOMAIN f) \cup {k} |-> IF x = k THEN v ELSE f[x]]

\* delete obj[k]
Del(f, k) == [x \in (DOMAIN f) \ {k} |-> f[x]]

\* ------------------------------------------------ string conversions

\* String.prototype.toLowerCase on the strings the model uses
toLowerCase(s) ==
  CASE s = "Content-Type" -> "content-type"
    [] s = "CONTENT-TYPE" -> "content-type"
    [] s = "Application/JSON" -> "application/json"
    [] s = "Application/JSON; charset=utf-8" -> "application/json; charset=utf-8"
    [] s = "X-A" -> "x-a"
    [] s = "Accept" -> "accept"
    [] OTHER -> s

\* String.prototype.toUpperCase on the strings the model uses
toUpperCase(s) ==
  CASE s = "get" -> "GET"
    [] s = "post" -> "POST"
    [] s = "Post" -> "POST"
    [] OTHER -> s

\* the media type of a content-type value: parameters stripped, lower-cased
MediaType(v) ==
  CASE toLowerCase(v) = "application/json; charset=utf-8" -> "application/json"
    [] toLowerCase(v) = "multipart/form-data; boundary=x" -> "multipart/form-data"
    [] OTHER -> toLowerCase(v)

\* ------------------------------------------------- body codec registry

\* utils/constants: the methods that carry a body
BodyAvailableMethods == {"POST"}

\* processors: the fixed, ordered codec list; the first one is the default
Processors ==
  << [name |-> "application/x-www-form-urlencoded",
      formEnctype |-> "application/x-www-form-urlencoded",
      httpContentType |-> "application/x-www-form-urlencoded"],
     [name |-> "multipart/form-data",
      formEnctype |-> "multipart/form-data",
      httpContentType |-> "multipart/form-data"],
     [name |-> "application/json",
      formEnctype |-> "text/plain",
      httpContentType |-> "application/json"] >>

\* bodyProcessors.find(name): <<codec>> or <<>> (undefined)
find(name) == SelectSeq(Processors, LAMBDA p : p.name = name)

\* bodyProcessors.findByContentType(value): first match in registration order
findByContentType(value) ==
  SelectSeq(Processors, LAMBDA p : p.httpContentType = MediaType(value))

getDefaultProcessor == Processors[1]

getDefaultProcessorName == getDefaultProcessor.name

\* ------------------------------------------------------ capture listener

\* TextDecoder.decode on the byte values the model uses; any other byte
\* decodes to the replacement character
Chr(b) ==
  CASE b = 104 -> "h" [] b = 101 -> "e" [] b = 108 -> "l" [] b = 111 -> "o"
    [] b = 32 -> " " [] b = 97 -> "a" [] b = 61 -> "=" [] b = 49 -> "1"
    [] OTHER -> "?"

RECURSIVE decode(_)
decode(bytes) ==
  IF bytes = <<>> THEN "" ELSE Chr(Head(bytes)) \o decode(Tail(bytes))

\* a variant that never looks at the file name of a segment
rawSegment_NoFileCheck(data) ==
  IF data.bytes = <<>> THEN "" ELSE decode(data.bytes[1])

\* one raw segment: file is "" when the segment names no file, bytes is
\* <<>> (absent) or <<byte sequence>>
rawSegment(data) ==
  IF data.file # "" THEN "[Content of '" \o data.file \o "']"
  ELSE IF data.bytes = <<>> THEN ""
  ELSE decode(data.bytes[1])

RECURSIVE join(_)
join(strs) == IF strs = <<>> THEN "" ELSE Head(strs) \o join(Tail(strs))

\* the application/x-www-form-urlencoded byte serializer on one character
UrlEncodeChar(c) ==
  CASE c = " " -> "+" [] c = "=" -> "%3D" [] c = "&" -> "%26"
    [] c = "?" -> "%EF%BF%BD" [] OTHER -> c

RECURSIVE urlEncode(_)
urlEncode(chars) ==
  IF chars = <<>> THEN "" ELSE UrlEncodeChar(Head(chars)) \o urlEncode(Tail(chars))

\* a form value is a string (its characters) or an ArrayBuffer (its bytes)
fieldContent(value) ==
  IF value.isBuffer THEN [i \in DOMAIN value.bytes |-> Chr(value.bytes[i])]
  ELSE value.chars

\* URLSearchParams.toString() of the appended (name, value) pairs
RECURSIVE paramsToString(_)
paramsToString(pairs) ==
  IF pairs = <<>> THEN ""
  ELSE urlEncode(Head(pairs).name) \o "=" \o urlEncode(Head(pairs).value)
       \o (IF Tail(pairs) = <<>> THEN "" ELSE "&" \o paramsToString(Tail(pairs)))

\* the pairs appended by the two nested loops over requestBody.formData
RECURSIVE formPairs(_)
formPairs(fields) ==
  IF fields = <<>> THEN <<>>
  ELSE [i \in DOMAIN Head(fields).values |->
          [name |-> Head(fields).name,
           value |-> fieldContent(Head(fields).values[i])]]
       \o formPairs(Tail(fields))

\* bodyContent as computed from details.requestBody
bodyContent(requestBody) ==
  IF requestBody.kind = "formData" THEN paramsToString(formPairs(requestBody.formData))
  ELSE IF requestBody.kind = "raw"
       THEN join([i \in DOMAIN requestBody.raw |-> rawSegment(requestBody.raw[i])])
  ELSE ""

\* the snapshot written by the capture listener
CapturedRequest(details) ==
  [url |-> details.url,
   body |-> [enctype |-> getDefaultProcessorName,
             content |-> bodyContent(details.requestBody)],
   method |-> toUpperCase(details.method),
   headers |-> <<>>]

\* ------------------------------------------------------------ rule engine

\* the test of lines 79-83: a body method whose enctype has no codec
UnsupportedEnctype(data) ==
  /\ data.method \in BodyAvailableMethods
  /\ find(data.body.enctype) = <<>>

\* a variant that pushes the synthetic edit for every body method, whether
\* or not the codec's two types differ
modifiedHeaders_AlwaysPush(data) ==
  IF data.method \in BodyAvailableMethods /\ find(data.body.enctype) # <<>>
  THEN Append(data.headers,
              [enabled |-> TRUE,
               name |-> "content-type",
               value |-> find(data.body.enctype)[1].httpContentType,
               removeIfEmptyValue |-> FALSE])
  ELSE data.headers

\* message.data.headers after the optional push of the synthetic edit
modifiedHeaders(data) ==
  IF /\ data.method \in BodyAvailableMethods
     /\ find(data.body.enctype) # <<>>
     /\ find(data.body.enctype)[1].formEnctype
          # find(data.body.enctype)[1].httpContentType
  THEN Append(data.headers,
              [enabled |-> TRUE,
               name |-> "content-type",
               value |-> find(data.body.enctype)[1].httpContentType,
               removeIfEmptyValue |-> FALSE])
  ELSE data.headers

\* the filter predicate
retained(header) == header.enabled /\ Len(header.name) > 0

\* a variant that removes every header whose value is empty
ModifyHeaderInfo_IgnoreFlag(header) ==
  IF Len(header.value) # 0
  THEN [header |-> header.name, operation |-> "set", value |-> <<header.value>>]
  ELSE [header |-> header.name, operation |-> "remove", value |-> <<>>]

\* the map callback; value is <<v>> for "set" and <<>> (absent) for "remove"
ModifyHeaderInfo(header) ==
  IF Len(header.value) # 0 \/ ~header.removeIfEmptyValue
  THEN [header |-> header.name, operation |-> "set", value |-> <<header.value>>]
  ELSE [header |-> header.name, operation |-> "remove", value |-> <<>>]

\* sessionRules of the handler: filter, then map
directives(headers) ==
  LET kept == SelectSeq(headers, retained)
  IN [i \in DOMAIN kept |-> ModifyHeaderInfo(kept[i])]

\* a variant that names no rule to remove
removeRuleIds_None(tabId) == <<>>

\* removeRuleIds of the execute branch
removeRuleIdsOf(tabId) == <<tabId>>

\* a variant that adds a rule even when there is no directive
updateRuleOptions_AlwaysAdd(tabId, rules) ==
  [removeRuleIds |-> <<tabId>>,
   addRules |->
     << [id |-> tabId,
         action |-> [type |-> "modifyHeaders", requestHeaders |-> rules],
         condition |-> [tabIds |-> <<tabId>>,
                        resourceTypes |-> <<"main_frame">>]] >>]

\* updateRuleOptions of the handler
updateRuleOptions(tabId, rules) ==
  [removeRuleIds |-> removeRuleIdsOf(tabId),
   addRules |->
     IF Len(rules) > 0
     THEN << [id |-> tabId,
              action |-> [type |-> "modifyHeaders", requestHeaders |-> rules],
              condition |-> [tabIds |-> <<tabId>>,
                             resourceTypes |-> <<"main_frame">>]] >>
     ELSE <<>>]

\* a variant that removes nothing
removeOptions_None(tabId) == [removeRuleIds |-> <<>>, addRules |-> <<>>]

\* a variant that removes the rule of every tab
removeOptions_All(tabId) ==
  [removeRuleIds |-> [i \in 1..MaxTabs |-> i], addRules |-> <<>>]

\* the options passed by handleResponseCompleted
removeOptions(tabId) == [removeRuleIds |-> <<tabId>>, addRules |-> <<>>]

\* host: the rule table after an accepted updateSessionRules call
applyUpdate(table, options) ==
  {r \in table : r.id \notin Range(options.removeRuleIds)}
    \cup Range(options.addRules)

RulesOf(tabId) == {r \in sessionRules : r.id = tabId}

\* ------------------------------------------------------------- inputs

\* header edits a control message may carry
HeaderEdits ==
  { [enabled |-> TRUE,  name |-> "X-A", value |-> "1", removeIfEmptyValue |-> FALSE],
    [enabled |-> TRUE,  name |-> "Accept", value |-> "", removeIfEmptyValue |-> TRUE],
    [enabled |-> TRUE,  name |-> "X-A", value |-> "", removeIfEmptyValue |-> FALSE],
    [enabled |-> FALSE, name |-> "X-A", value |-> "2", removeIfEmptyValue |-> TRUE],
    [enabled |-> TRUE,  name |-> "", value |-> "3", removeIfEmptyValue |-> FALSE] }

RECURSIVE SeqsUpTo(_, _)
SeqsUpTo(S, n) ==
  IF n = 0 THEN {<<>>}
  ELSE LET shorter == SeqsUpTo(S, n - 1)
       IN shorter \cup {Append(q, x) : q \in shorter, x \in S}

Enctypes == {"application/x-www-form-urlencoded", "application/json", "text/xml"}

\* every edited snapshot of an execute message, up to MaxHeaders header edits
AllExecuteData ==
  { [url |-> "http://a/", method |-> m,
     body |-> [enctype |-> e, content |-> "a=1"], headers |-> hs]
    : m \in {"GET", "POST"}, e \in Enctypes, hs \in SeqsUpTo(HeaderEdits, MaxHeaders) }

\* the edited snapshots the full system is explored with
ExecuteData ==
  { d \in AllExecuteData :
      /\ d.method = "GET" => d.body.enctype = "application/x-www-form-urlencoded"
      /\ d.method = "POST" => d.body.enctype # "application/x-www-form-urlencoded"
      /\ \/ d.headers = <<>>
         \/ /\ Len(d.headers) = 1
            /\ d.headers[1].enabled /\ d.headers[1].name = "X-A" /\ d.headers[1].value = "1" }

TestData == { [action |-> "start", script |-> "test.js"],
              [action |-> "stop", script |-> ""] }

\* details of request-initiation events
RequestDetails ==
  { [url |-> "http://a/", method |-> "get", requestBody |-> [kind |-> "none"]],
    [url |-> "http://b/", method |-> "POST",
     requestBody |-> [kind |-> "raw",
                      raw |-> << [file |-> "", bytes |-> << <<104, 101, 108, 108, 111, 32>> >>],
                                 [file |-> "f.bin", bytes |-> <<>>] >>]],
    [url |-> "http://a/", method |-> "post",
     requestBody |-> [kind |-> "formData",
                      formData |-> << [name |-> <<"a">>,
                                       values |-> << [isBuffer |-> FALSE, chars |-> <<"1">>, bytes |-> <<>>] >>] >>]] }

\* requestHeaders of header-send events
RequestHeaders ==
  { <<>>,
    << [name |-> "Accept", value |-> "*/*"] >>,
    << [name |-> "Content-Type", value |-> "Application/JSON; charset=utf-8"] >>,
    << [name |-> "content-type", value |-> "text/xml"] >> }

\* raw body segments: inline bytes, a file, neither, both, an empty buffer
Segments ==
  { [file |-> "", bytes |-> << <<104, 101, 108, 108, 111, 32>> >>],
    [file |-> "f.bin", bytes |-> <<>>],
    [file |-> "", bytes |-> <<>>],
    [file |-> "f.bin", bytes |-> << <<97, 61, 49>> >>],
    [file |-> "", bytes |-> << <<>> >>] }

\* request-initiation events exposing up to MaxSegments raw segments
RawDetails ==
  { [url |-> "http://b/", method |-> "post",
     requestBody |-> [kind |-> "raw", raw |-> segs]]
    : segs \in SeqsUpTo(Segments, MaxSegments) }

\* ------------------------------------------------------------- state

NoPost == <<>>

Step(op, tabId, err, post) == [op |-> op, tab |-> tabId, err |-> err, post |-> post]

IdleRequest == [phase |-> "none", origin |-> "user", owns |-> FALSE, applied |-> "none"]

\* the identity of a new invocation: the least one not in flight
FreshId ==
  CHOOSE i \in 1..MaxHandlers :
    i \notin DOMAIN handlers /\ \A j \in 1..(i - 1) : j \in DOMAIN handlers

\* history: which rule the host applies to the request of tabId as it sends
\* its headers: none, the rule of the execute that triggered the request
\* ("own"), the rule of an execute still running ("early") or of one that
\* has ended ("stale")
AppliedRule(tabId) ==
  IF RulesOf(tabId) = {} THEN "none"
  ELSE IF req[tabId].owns THEN "own"
  ELSE IF \E h \in DOMAIN handlers : handlers[h].tabId = tabId /\ handlers[h].owns
  THEN "early"
  ELSE "stale"

Init ==
  /\ browseRequests = <<>>
  /\ connections = <<>>
  /\ sessionRules = {}
  /\ dnr = <<>>
  /\ handlers = <<>>
  /\ req = [t \in Tabs |-> IdleRequest]
  /\ nav = [t \in Tabs |-> "none"]
  /\ injected = {}
  /\ closed = {}
  /\ ports = [p \in Peers |-> "new"]
  /\ last = Step("init", 0, "none", NoPost)

\* ------------------------------------------------- control channel

\* runtime.onConnect: the listener is attached to the new port
Connect(p) ==
  /\ ports[p] = "new"
  /\ ports' = [ports EXCEPT ![p] = "open"]
  /\ last' = Step("connect", 0, "none", NoPost)
  /\ UNCHANGED <<browseRequests, connections, sessionRules, dnr,
                 handlers, req, nav, injected, closed>>

\* port.onDisconnect: the listener is removed, the store is not touched
Disconnect(p) ==
  /\ ports[p] = "open"
  /\ ports' = [ports EXCEPT ![p] = "gone"]
  /\ last' = Step("disconnect", 0, "none", NoPost)
  /\ UNCHANGED <<browseRequests, connections, sessionRules, dnr,
                 handlers, req, nav, injected, closed>>

\* connection.postMessage(msg) on tabStore.getConnection(tabId)!
\* the outcome is <<error, posted notifications>>
PostTo(conns, tabId, type, data) ==
  IF tabId \in DOMAIN conns
  THEN <<"none", << [to |-> conns[tabId], type |-> type, data |-> data] >> >>
  ELSE <<"TypeError", NoPost>>

\* devToolsListener with a load message
LoadMessage(p, tabId) ==
  /\ ports[p] = "open"
  /\ connections' = Put(connections, tabId, p)
  /\ LET data == IF tabId \in DOMAIN browseRequests
                 THEN <<browseRequests[tabId]>> ELSE <<>>
         out == PostTo(connections', tabId, "load", data)
     IN last' = Step("load", tabId, out[1], out[2])
  /\ UNCHANGED <<browseRequests, sessionRules, dnr, handlers, req, nav,
                 injected, closed, ports>>

\* a variant of the execute branch that looks the codec up only after the
\* rule update has been issued
ExecuteMessage_LateCheck(p, tabId, data) ==
  /\ ports[p] = "open"
  /\ Cardinality(DOMAIN handlers) < MaxHandlers
  /\ Len(dnr) < MaxDnr
  /\ connections' = Put(connections, tabId, p)
  /\ dnr' = Append(dnr,
         [options |-> updateRuleOptions(tabId, directives(modifiedHeaders(data))),
          by |-> IF UnsupportedEnctype(data) THEN 0 ELSE FreshId, tabId |-> tabId])
  /\ IF UnsupportedEnctype(data)
     THEN /\ handlers' = handlers
          /\ last' = Step("execute", tabId, "Unsupported enctype", NoPost)
     ELSE /\ handlers' = Put(handlers, FreshId,
                 [type |-> "execute", tabId |-> tabId,
                  data |-> [data EXCEPT !.headers = modifiedHeaders(data)],
                  pc |-> "rules", res |-> "pending", owns |-> FALSE])
          /\ last' = Step("execute", tabId, "none", NoPost)
  /\ UNCHANGED <<browseRequests, sessionRules, req, nav, injected,
                 closed, ports>>

\* a variant of the execute branch that also stores the edited snapshot
ExecuteMessage_StoresEdit(p, tabId, data) ==
  /\ ports[p] = "open"
  /\ Cardinality(DOMAIN handlers) < MaxHandlers
  /\ connections' = Put(connections, tabId, p)
  /\ IF UnsupportedEnctype(data)
     THEN /\ handlers' = handlers
          /\ dnr' = dnr
          /\ browseRequests' = browseRequests
          /\ last' = Step("execute", tabId, "Unsupported enctype", NoPost)
     ELSE /\ Len(dnr) < MaxDnr
          /\ handlers' = Put(handlers, FreshId,
                 [type |-> "execute", tabId |-> tabId,
                  data |-> [data EXCEPT !.headers = modifiedHeaders(data)],
                  pc |-> "rules", res |-> "pending", owns |-> FALSE])
          /\ dnr' = Append(dnr,
                 [options |-> updateRuleOptions(tabId, directives(modifiedHeaders(data))),
                  by |-> FreshId, tabId |-> tabId])
          /\ browseRequests' =
               Put(browseRequests, tabId,
                   [data EXCEPT !.headers = modifiedHeaders(data)])
          /\ last' = Step("execute", tabId, "none", NoPost)
  /\ UNCHANGED <<sessionRules, req, nav, injected, closed, ports>>

\* devToolsListener with an execute message: the synchronous part of
\* handleMessage, up to the first await
ExecuteMessage(p, tabId, data) ==
  /\ ports[p] = "open"
  /\ Cardinality(DOMAIN handlers) < MaxHandlers
  /\ connections' = Put(connections, tabId, p)
  /\ IF UnsupportedEnctype(data)
     THEN /\ handlers' = handlers
          /\ dnr' = dnr
          /\ last' = Step("execute", tabId, "Unsupported enctype", NoPost)
     ELSE /\ Len(dnr) < MaxDnr
          /\ handlers' = Put(handlers, FreshId,
                 [type |-> "execute", tabId |-> tabId,
                  data |-> [data EXCEPT !.headers = modifiedHeaders(data)],
                  pc |-> "rules", res |-> "pending", owns |-> FALSE])
          /\ dnr' = Append(dnr,
                 [options |-> updateRuleOptions(tabId, directives(modifiedHeaders(data))),
                  by |-> FreshId, tabId |-> tabId])
          /\ last' = Step("execute", tabId, "none", NoPost)
  /\ UNCHANGED <<browseRequests, sessionRules, req, nav, injected,
                 closed, ports>>

\* devToolsListener with a test message: handleMessage up to its first await
TestMessage(p, tabId, data) ==
  /\ ports[p] = "open"
  /\ Cardinality(DOMAIN handlers) < MaxHandlers
  /\ connections' = Put(connections, tabId, p)
  /\ handlers' = Put(handlers, FreshId,
        [type |-> "test", tabId |-> tabId, data |-> data,
         pc |-> IF data.action = "start" THEN "script" ELSE "send",
         res |-> "pending", owns |-> FALSE])
  /\ last' = Step("test", tabId, "none", NoPost)
  /\ UNCHANGED <<browseRequests, sessionRules, dnr, req, nav, injected,
                 closed, ports>>

Settle(h, res) == [handlers EXCEPT ![h].res = res]

\* the rule ids an updateSessionRules call names
touchedIds(options) ==
  Range(options.removeRuleIds) \cup {r.id : r \in Range(options.addRules)}

\* host: the oldest updateSessionRules call is accepted (atomically applied)
\* or, when it adds a rule the host may find invalid, rejected
HostUpdateSessionRules(accept) ==
  /\ dnr # <<>>
  /\ LET call == Head(dnr)
         touched == IF accept THEN touchedIds(call.options) ELSE {}
     IN /\ accept \/ call.options.addRules # <<>>
        /\ sessionRules' = IF accept THEN applyUpdate(sessionRules, call.options)
                           ELSE sessionRules
        /\ handlers' =
             [h \in DOMAIN handlers |->
                [handlers[h] EXCEPT
                   !.res = IF h = call.by
                           THEN (IF accept THEN "ok" ELSE "rejected") ELSE @,
                   !.owns = IF handlers[h].tabId \in touched
                            THEN h = call.by /\ call.options.addRules # <<>>
                            ELSE @]]
        /\ nav' = [t \in Tabs |->
                    IF t \in touched /\ nav[t] = "own" THEN "foreign" ELSE nav[t]]
        /\ req' = [t \in Tabs |->
                    IF t \in touched THEN [req[t] EXCEPT !.owns = FALSE] ELSE req[t]]
        /\ last' = Step("host", call.tabId, "none", NoPost)
  /\ dnr' = Tail(dnr)
  /\ UNCHANGED <<browseRequests, connections, injected, closed, ports>>

\* host: scripting.executeScript settles; it fails on a removed tab
HostExecuteScript(h, accept) ==
  /\ h \in DOMAIN handlers
  /\ handlers[h].pc = "script" /\ handlers[h].res = "pending"
  /\ accept => handlers[h].tabId \notin closed
  /\ injected' = IF accept THEN injected \cup {handlers[h].tabId} ELSE injected
  /\ handlers' = Settle(h, IF accept THEN "ok" ELSE "rejected")
  /\ last' = Step("host", handlers[h].tabId, "none", NoPost)
  /\ UNCHANGED <<browseRequests, connections, sessionRules, dnr, req,
                 nav, closed, ports>>

\* host: tabs.sendMessage settles: the page answers null (the form was
\* submitted, a navigation of the tab follows), answers an error string, or
\* there is no receiver in the tab
HostSendMessage(h, answer) ==
  /\ h \in DOMAIN handlers
  /\ handlers[h].pc = "send" /\ handlers[h].res = "pending"
  /\ answer \in {"null", "error"} =>
       handlers[h].tabId \in injected \ closed
  /\ nav' = IF answer = "null" /\ handlers[h].type = "execute"
            THEN [nav EXCEPT ![handlers[h].tabId] =
                    IF handlers[h].owns THEN "own" ELSE "foreign"]
            ELSE nav
  /\ handlers' = Settle(h, answer)
  /\ last' = Step("host", handlers[h].tabId, "none", NoPost)
  /\ UNCHANGED <<browseRequests, connections, sessionRules, dnr, req,
                 injected, closed, ports>>

\* host: tabs.update settles; accepted, the tab starts navigating
HostTabsUpdate(h, accept) ==
  /\ h \in DOMAIN handlers
  /\ handlers[h].pc = "nav" /\ handlers[h].res = "pending"
  /\ accept => handlers[h].tabId \notin closed
  /\ nav' = IF accept
            THEN [nav EXCEPT ![handlers[h].tabId] =
                    IF handlers[h].owns THEN "own" ELSE "foreign"]
            ELSE nav
  /\ handlers' = Settle(h, IF accept THEN "ok" ELSE "rejected")
  /\ last' = Step("host", handlers[h].tabId, "none", NoPost)
  /\ UNCHANGED <<browseRequests, connections, sessionRules, dnr, req,
                 injected, closed, ports>>

\* a variant that injects the post script whatever the method
Resume_AlwaysInject(hd, conns) ==
  IF hd.res = "rejected" THEN <<"done", "rejected", "rejected", NoPost>>
  ELSE IF hd.type = "execute" /\ hd.pc = "rules"
  THEN <<"script", "pending", "none", NoPost>>
  ELSE IF hd.pc = "script" THEN <<"send", "pending", "none", NoPost>>
  ELSE IF hd.type = "execute" /\ hd.pc = "send" /\ hd.res = "error"
  THEN LET out == PostTo(conns, hd.tabId, "error", <<"submit failed">>)
       IN <<"done", IF out[1] = "none" THEN "ok" ELSE out[1], out[1], out[2]>>
  ELSE <<"done", "ok", "none", NoPost>>

\* a variant that goes on to the replay whether or not the rule update
\* was accepted
Resume_IgnoreRejection(hd, conns) ==
  IF hd.type = "execute" /\ hd.pc = "rules"
  THEN IF hd.data.method \in BodyAvailableMethods
       THEN <<"script", "pending", "none", NoPost>>
       ELSE <<"nav", "pending", "none", NoPost>>
  ELSE IF hd.res = "rejected" THEN <<"done", "rejected", "rejected", NoPost>>
  ELSE IF hd.pc = "script" THEN <<"send", "pending", "none", NoPost>>
  ELSE IF hd.type = "execute" /\ hd.pc = "send" /\ hd.res = "error"
  THEN LET out == PostTo(conns, hd.tabId, "error", <<"submit failed">>)
       IN <<"done", IF out[1] = "none" THEN "ok" ELSE out[1], out[1], out[2]>>
  ELSE <<"done", "ok", "none", NoPost>>

\* the part of handleMessage that runs when the awaited call has settled:
\* <<pc, res, error, posted notifications>>
Resume(hd, conns) ==
  IF hd.res = "rejected" THEN <<"done", "rejected", "rejected", NoPost>>
  ELSE IF hd.type = "execute" /\ hd.pc = "rules"
  THEN IF hd.data.method \in BodyAvailableMethods
       THEN <<"script", "pending", "none", NoPost>>
       ELSE <<"nav", "pending", "none", NoPost>>
  ELSE IF hd.pc = "script" THEN <<"send", "pending", "none", NoPost>>
  ELSE IF hd.type = "execute" /\ hd.pc = "send" /\ hd.res = "error"
  THEN LET out == PostTo(conns, hd.tabId, "error", <<"submit failed">>)
       IN <<"done", IF out[1] = "none" THEN "ok" ELSE out[1], out[1], out[2]>>
  ELSE <<"done", "ok", "none", NoPost>>

Continue(h) ==
  /\ h \in DOMAIN handlers
  /\ handlers[h].res # "pending"
  /\ LET r == Resume(handlers[h], connections)
     IN /\ handlers' = IF r[1] = "done" THEN Del(handlers, h)
                       ELSE [handlers EXCEPT ![h].pc = r[1], ![h].res = r[2]]
        /\ last' = Step("continue", handlers[h].tabId, r[3], r[4])
  /\ UNCHANGED <<browseRequests, connections, sessionRules, dnr, req,
                 nav, injected, closed, ports>>

\* runtime.onMessage: a message from a script running in a tab's page
PageMessage(tabId) ==
  /\ tabId \in injected
  /\ LET out == PostTo(connections, tabId, "test", <<"result">>)
     IN last' = Step("pageMessage", tabId, out[1], out[2])
  /\ UNCHANGED <<browseRequests, connections, sessionRules, dnr,
                 handlers, req, nav, injected, closed, ports>>

\* commands.onCommand with tabId the active tab: forwarded when a
\* connection is stored, dropped otherwise
Command(tabId) ==
  /\ last' = IF tabId \in DOMAIN connections
             THEN Step("command", tabId, "none",
                       PostTo(connections, tabId, "command", <<"load">>)[2])
             ELSE Step("command", tabId, "none", NoPost)
  /\ UNCHANGED <<browseRequests, connections, sessionRules, dnr,
                 handlers, req, nav, injected, closed, ports>>

\* ------------------------------------------------------ request events

\* a variant that keeps the enctype of the snapshot it replaces
BeforeRequest_KeepsEnctype(tabId, details) ==
  /\ \/ req[tabId].phase = "redirect"
     \/ req[tabId].phase = "none" /\ (nav[tabId] # "none" \/ tabId \notin closed)
  /\ browseRequests' =
       Put(browseRequests, tabId,
           [url |-> details.url,
            body |-> [enctype |-> IF tabId \in DOMAIN browseRequests
                                  THEN browseRequests[tabId].body.enctype
                                  ELSE getDefaultProcessorName,
                      content |-> bodyContent(details.requestBody)],
            method |-> toUpperCase(details.method),
            headers |-> <<>>])
  /\ req' = [req EXCEPT ![tabId] =
               [phase |-> "initiated",
                origin |-> IF req[tabId].phase = "redirect" THEN req[tabId].origin
                           ELSE IF nav[tabId] # "none" THEN "replay" ELSE "user",
                owns |-> IF req[tabId].phase = "redirect" THEN req[tabId].owns
                         ELSE nav[tabId] = "own",
                applied |-> "none"]]
  /\ nav' = IF req[tabId].phase = "redirect" THEN nav
            ELSE [nav EXCEPT ![tabId] = "none"]
  /\ last' = Step("capture", tabId, "none", NoPost)
  /\ UNCHANGED <<connections, sessionRules, dnr, handlers, injected,
                 closed, ports>>

\* webRequest.onBeforeRequest: a navigation the user starts (origin 0), the
\* replay a handler triggered, or the next leg of a redirected request
BeforeRequest(tabId, details) ==
  /\ \/ req[tabId].phase = "redirect"
     \/ req[tabId].phase = "none" /\ (nav[tabId] # "none" \/ tabId \notin closed)
  /\ browseRequests' = Put(browseRequests, tabId, CapturedRequest(details))
  /\ req' = [req EXCEPT ![tabId] =
               [phase |-> "initiated",
                origin |-> IF req[tabId].phase = "redirect" THEN req[tabId].origin
                           ELSE IF nav[tabId] # "none" THEN "replay" ELSE "user",
                owns |-> IF req[tabId].phase = "redirect" THEN req[tabId].owns
                         ELSE nav[tabId] = "own",
                applied |-> "none"]]
  /\ nav' = IF req[tabId].phase = "redirect" THEN nav
            ELSE [nav EXCEPT ![tabId] = "none"]
  /\ last' = Step("capture", tabId, "none", NoPost)
  /\ UNCHANGED <<connections, sessionRules, dnr, handlers, injected,
                 closed, ports>>

\* a variant that compares the header name without lower-casing it
contentTypeHeader_CaseSensitive(requestHeaders) ==
  SelectSeq(requestHeaders, LAMBDA header : header.name = "content-type")

\* details.requestHeaders.find(name is content-type): <<header>> or <<>>
contentTypeHeader(requestHeaders) ==
  SelectSeq(requestHeaders, LAMBDA header : toLowerCase(header.name) = "content-type")

\* the name written into body.enctype
resolvedName(value) ==
  IF findByContentType(value) # <<>> THEN findByContentType(value)[1].name
  ELSE getDefaultProcessor.name

\* webRequest.onBeforeSendHeaders; the host applies the tab's active rule
\* to the request
BeforeSendHeaders(tabId, requestHeaders) ==
  /\ req[tabId].phase = "initiated"
  /\ LET found == contentTypeHeader(requestHeaders)
     IN IF found = <<>>
        THEN /\ browseRequests' = browseRequests
             /\ last' = Step("sendHeaders", tabId, "none", NoPost)
        ELSE IF tabId \notin DOMAIN browseRequests
        THEN /\ browseRequests' = browseRequests
             /\ last' = Step("sendHeaders", tabId, "TypeError", NoPost)
        ELSE /\ browseRequests' = Put(browseRequests, tabId,
                    [browseRequests[tabId] EXCEPT
                       !.body.enctype = resolvedName(found[1].value)])
             /\ last' = Step("sendHeaders", tabId, "none", NoPost)
  /\ req' = [req EXCEPT ![tabId].phase = "sent",
                        ![tabId].applied = AppliedRule(tabId)]
  /\ UNCHANGED <<connections, sessionRules, dnr, handlers, nav,
                 injected, closed, ports>>

\* handleResponseCompleted up to its await: the removal is issued
handleResponseCompleted(tabId) ==
  dnr' = Append(dnr, [options |-> removeOptions(tabId), by |-> 0, tabId |-> tabId])

\* webRequest.onBeforeRedirect
BeforeRedirect(tabId) ==
  /\ req[tabId].phase = "sent"
  /\ Len(dnr) < MaxDnr
  /\ handleResponseCompleted(tabId)
  /\ req' = [req EXCEPT ![tabId].phase = "redirect"]
  /\ last' = Step("redirect", tabId, "none", NoPost)
  /\ UNCHANGED <<browseRequests, connections, sessionRules, handlers,
                 nav, injected, closed, ports>>

\* webRequest.onCompleted: the new document replaces the page
Completed(tabId) ==
  /\ req[tabId].phase = "sent"
  /\ Len(dnr) < MaxDnr
  /\ handleResponseCompleted(tabId)
  /\ req' = [req EXCEPT ![tabId] = IdleRequest]
  /\ injected' = injected \ {tabId}
  /\ last' = Step("completed", tabId, "none", NoPost)
  /\ UNCHANGED <<browseRequests, connections, sessionRules, handlers,
                 nav, closed, ports>>

\* webRequest.onErrorOccurred
ErrorOccurred(tabId) ==
  /\ req[tabId].phase \in {"initiated", "sent", "redirect"}
  /\ Len(dnr) < MaxDnr
  /\ handleResponseCompleted(tabId)
  /\ req' = [req EXCEPT ![tabId] = IdleRequest]
  /\ last' = Step("errorOccurred", tabId, "none", NoPost)
  /\ UNCHANGED <<browseRequests, connections, sessionRules, handlers,
                 nav, injected, closed, ports>>

\* tabStore.remove(tabId)
remove(tabId) ==
  /\ browseRequests' = Del(browseRequests, tabId)
  /\ connections' = Del(connections, tabId)

\* tabs.onRemoved
TabRemoved(tabId) ==
  /\ tabId \notin closed
  /\ closed' = closed \cup {tabId}
  /\ remove(tabId)
  /\ nav' = [nav EXCEPT ![tabId] = "none"]
  /\ last' = Step("tabRemoved", tabId, "none", NoPost)
  /\ UNCHANGED <<sessionRules, dnr, handlers, req, injected, ports>>

\* ------------------------------------------------------ specification

\* one step of the system once a peer may be attached: an event or a
\* command for a tab of T, with its input drawn from the given sets, or a
\* step of the host or of a handler
Events(T, executeData, testData, details, headers) ==
  \/ \E p \in Peers : Disconnect(p)
  \/ \E p \in Peers, t \in T : LoadMessage(p, t)
  \/ \E p \in Peers, t \in T, d \in executeData : ExecuteMessage(p, t, d)
  \/ \E p \in Peers, t \in T, d \in testData : TestMessage(p, t, d)
  \/ \E a \in BOOLEAN : HostUpdateSessionRules(a)
  \/ \E h \in DOMAIN handlers, a \in BOOLEAN : HostExecuteScript(h, a)
  \/ \E h \in DOMAIN handlers, a \in {"null", "error", "rejected"} : HostSendMessage(h, a)
  \/ \E h \in DOMAIN handlers, a \in BOOLEAN : HostTabsUpdate(h, a)
  \/ \E h \in DOMAIN handlers : Continue(h)
  \/ \E t \in T : PageMessage(t)
  \/ \E t \in T : Command(t)
  \/ \E t \in T, d \in details : BeforeRequest(t, d)
  \/ \E t \in T, hs \in headers : BeforeSendHeaders(t, hs)
  \/ \E t \in T : BeforeRedirect(t)
  \/ \E t \in T : Completed(t)
  \/ \E t \in T : ErrorOccurred(t)
  \/ \E t \in T : TabRemoved(t)

\* the request events the system is explored with
SystemDetails == {d \in RequestDetails : d.requestBody.kind = "raw"}

SystemHeaders == {hs \in RequestHeaders : hs = <<>> \/ hs[1].name = "Content-Type"}

\* one session, every interleaving of its events, commands and host steps
OneTab == {t \in Tabs : t <= 1}

Next ==
  \/ \E p \in Peers : Connect(p)
  \/ Events(OneTab, ExecuteData, TestData, SystemDetails, SystemHeaders)

Spec == Init /\ [][Next]_vars

\* the host settles every updateSessionRules call it was given
SpecLive ==
  Init /\ [][Next]_vars /\ WF_vars(\E a \in BOOLEAN : HostUpdateSessionRules(a))

\* ------------------------------------------------------ rule engine

\* one session, every edited snapshot: the execute command and the host
\* calls it awaits
RulesNext ==
  \/ \E p \in Peers : Connect(p)
  \/ \E p \in Peers, t \in OneTab, d \in AllExecuteData : ExecuteMessage(p, t, d)
  \/ \E a \in BOOLEAN : HostUpdateSessionRules(a)
  \/ \E h \in DOMAIN handlers, a \in BOOLEAN : HostExecuteScript(h, a)
  \/ \E h \in DOMAIN handlers, a \in {"null", "error", "rejected"} : HostSendMessage(h, a)
  \/ \E h \in DOMAIN handlers, a \in BOOLEAN : HostTabsUpdate(h, a)
  \/ \E h \in DOMAIN handlers : Continue(h)

SpecRules == Init /\ [][RulesNext]_vars

\* ------------------------------------------------ capture and resolver

\* one session: every request event with every body shape and header list,
\* the load command and the tab removal
CaptureNext ==
  \/ \E p \in Peers : Connect(p)
  \/ \E p \in Peers, t \in OneTab : LoadMessage(p, t)
  \/ \E a \in BOOLEAN : HostUpdateSessionRules(a)
  \/ \E t \in OneTab, d \in RequestDetails \cup RawDetails : BeforeRequest(t, d)
  \/ \E t \in OneTab, hs \in RequestHeaders : BeforeSendHeaders(t, hs)
  \/ \E t \in OneTab : BeforeRedirect(t)
  \/ \E t \in OneTab : Completed(t)
  \/ \E t \in OneTab : ErrorOccurred(t)
  \/ \E t \in OneTab : TabRemoved(t)

SpecCapture == Init /\ [][CaptureNext]_vars

\* ------------------------------------------- activation and teardown

\* the edited snapshots whose rule update adds a rule
RaceExecuteData ==
  { d \in ExecuteData :
      ~UnsupportedEnctype(d) /\ directives(modifiedHeaders(d)) # <<>> }

\* one session: executes that activate a rule, their replay, and requests
\* that end by completing or failing
RaceNext ==
  \/ \E p \in Peers : Connect(p)
  \/ \E p \in Peers, t \in OneTab, d \in RaceExecuteData : ExecuteMessage(p, t, d)
  \/ \E a \in BOOLEAN : HostUpdateSessionRules(a)
  \/ \E h \in DOMAIN handlers, a \in BOOLEAN : HostExecuteScript(h, a)
  \/ \E h \in DOMAIN handlers, a \in {"null", "error", "rejected"} : HostSendMessage(h, a)
  \/ \E h \in DOMAIN handlers, a \in BOOLEAN : HostTabsUpdate(h, a)
  \/ \E h \in DOMAIN handlers : Continue(h)
  \/ \E t \in OneTab, d \in SystemDetails : BeforeRequest(t, d)
  \/ \E t \in OneTab, hs \in SystemHeaders : BeforeSendHeaders(t, hs)
  \/ \E t \in OneTab : Completed(t)
  \/ \E t \in OneTab : ErrorOccurred(t)

SpecRace == Init /\ [][RaceNext]_vars

\* ---------------------------------------------------- two sessions

\* one edited snapshot per replay kind
FrameExecuteData ==
  { d \in ExecuteData :
      \/ d.method = "GET" /\ d.headers # <<>>
      \/ d.method = "POST" /\ d.body.enctype = "application/json" /\ d.headers = <<>> }

FrameTestData == {d \in TestData : d.action = "start"}

FrameHeaders == {hs \in SystemHeaders : hs # <<>>}

OtherTabs == Tabs \ OneTab

\* the rule an execute with one enabled header edit activates for tabId
StaleRule(tabId) ==
  Range(updateRuleOptions(tabId,
          directives(<< [enabled |-> TRUE, name |-> "X-A", value |-> "1",
                         removeIfEmptyValue |-> FALSE] >>)).addRules)

\* the state reached when, for every other session, a peer has executed a
\* GET edit whose navigation the host rejected (the rule stays active) and
\* the user has then navigated the tab (captured, headers sent)
InitFrame ==
  /\ browseRequests =
       [t \in OtherTabs |-> CapturedRequest(CHOOSE d \in SystemDetails : TRUE)]
  /\ connections = [t \in OtherTabs |-> 1]
  /\ sessionRules = UNION {StaleRule(t) : t \in OtherTabs}
  /\ dnr = <<>>
  /\ handlers = <<>>
  /\ req = [t \in Tabs |->
              IF t \in OtherTabs
              THEN [phase |-> "sent", origin |-> "user", owns |-> FALSE,
                    applied |-> "stale"]
              ELSE IdleRequest]
  /\ nav = [t \in Tabs |-> "none"]
  /\ injected = {}
  /\ closed = {}
  /\ ports = [p \in Peers |-> IF p = 1 THEN "open" ELSE "new"]
  /\ last = Step("sendHeaders", CHOOSE t \in OtherTabs : TRUE, "none", NoPost)

\* every event and command of one session, interleaved with the terminal
\* events, the load and the removal of the other sessions; the peer is
\* attached before the first step
FrameNext ==
  \/ Events(OneTab, FrameExecuteData, FrameTestData, SystemDetails, FrameHeaders)
  \/ \E p \in Peers, t \in OtherTabs : LoadMessage(p, t)
  \/ \E t \in OtherTabs : Completed(t)
  \/ \E t \in OtherTabs : ErrorOccurred(t)
  \/ \E t \in OtherTabs : TabRemoved(t)

SpecFrame == InitFrame /\ [][FrameNext]_vars

\* ------------------------------------------------------------ claims

TerminalOps == {"redirect", "completed", "errorOccurred"}

\* C1: a rule activated by an execute never outlives the request it was
\* created for: no request that is not the replay of that execute sends its
\* headers with the rule of an execute that has already ended still active.
C1_RuleNeverOutlivesItsRequest ==
  \A t \in Tabs : req[t].phase = "sent" => req[t].applied # "stale"

\* C2: every terminal request event of S is eventually followed by a state
\* with no active rule with id S; the event raises no error, and applying
\* its removal when S has no active rule leaves the rule table unchanged.
C2_TerminalEventRemovesRule ==
  /\ \A t \in Tabs :
       (last.op \in TerminalOps /\ last.tab = t) ~> (RulesOf(t) = {})
  /\ [][ /\ last'.op \in TerminalOps => last'.err = "none"
         /\ (/\ dnr # <<>>
             /\ Head(dnr).by = 0
             /\ RulesOf(Head(dnr).tabId) = {}
             /\ HostUpdateSessionRules(TRUE))
            => sessionRules' = sessionRules ]_vars

\* a terminal event has just been handled while a rule of its session is
\* active
C2_Witness ==
  /\ last.op \in TerminalOps
  /\ RulesOf(last.tab) # {}

\* C3: at most one rule is active per session identifier, and every rule
\* update issued by an execute for S names exactly S in removeRuleIds.
C3_OneRulePerSession ==
  /\ \A t \in Tabs : Cardinality(RulesOf(t)) <= 1
  /\ \A i \in DOMAIN dnr :
       dnr[i].by # 0 => dnr[i].options.removeRuleIds = <<dnr[i].tabId>>

\* an execute has issued an update adding a rule for a session that already
\* has a different rule active
C3_Witness ==
  \E i \in DOMAIN dnr :
    /\ dnr[i].by # 0
    /\ dnr[i].options.addRules # <<>>
    /\ RulesOf(dnr[i].tabId) # {}
    /\ dnr[i].options.addRules[1] \notin sessionRules

\* C4: right after the tab-removal event of S there is neither a Session
\* Store entry for S nor an active rule with id S.
C4_TabRemovalClearsSession ==
  last.op = "tabRemoved" =>
    /\ last.tab \notin DOMAIN browseRequests
    /\ RulesOf(last.tab) = {}

\* C5: a header-send, terminal or tab-removal event for S that arrives when
\* S has no Session Store entry raises no error and leaves the store and the
\* rule table unchanged.
C5_StrayEventIsNoOp ==
  [][ (/\ last'.op \in TerminalOps \cup {"sendHeaders", "tabRemoved"}
       /\ last'.tab \notin DOMAIN browseRequests)
      => (/\ last'.err = "none"
          /\ browseRequests' = browseRequests
          /\ sessionRules' = sessionRules) ]_vars

\* C6: delivering a notification (load reply, error forwarding, forwarding
\* of a page message, command forwarding) for a session with no stored
\* connection raises no exception and posts nothing.
C6_DetachedPeerIsDropped ==
  (/\ last.op \in {"load", "continue", "pageMessage", "command"}
   /\ last.tab \notin DOMAIN connections)
  => (last.err # "TypeError" /\ last.post = NoPost)

\* C7: an execute whose method carries a body and whose enctype names no
\* registered codec fails with the unsupported-encoding error; the store,
\* the rule table and the pending rule updates are as before, no handler
\* stays in flight, and nothing is injected, submitted or navigated.
C7_UnsupportedEnctypeAborts ==
  [][ \A p \in Peers, t \in Tabs, d \in ExecuteData :
        (/\ last'.op = "execute"
         /\ d.method \in BodyAvailableMethods
         /\ \A i \in DOMAIN Processors : Processors[i].name # d.body.enctype
         /\ ExecuteMessage(p, t, d))
        => (/\ last'.err = "Unsupported enctype"
            /\ UNCHANGED <<browseRequests, sessionRules, dnr, handlers, nav,
                           injected, req>>) ]_vars

\* an execute has just failed with the unsupported-encoding error while the
\* session had a snapshot and an active rule
C7_Witness ==
  /\ last.op = "execute" /\ last.err = "Unsupported enctype"
  /\ last.tab \in DOMAIN browseRequests
  /\ RulesOf(last.tab) # {}

\* the directives an updateSessionRules call carries
CallDirectives(call) ==
  IF call.options.addRules = <<>> THEN <<>>
  ELSE call.options.addRules[1].action.requestHeaders

\* the directive list the claims ascribe to a list of header edits
RECURSIVE ExpectedDirectives(_)
ExpectedDirectives(edits) ==
  IF edits = <<>> THEN <<>>
  ELSE LET e == Head(edits)
           d == IF ~e.enabled \/ e.name = "" THEN <<>>
                ELSE IF e.value = "" /\ e.removeIfEmptyValue
                THEN << [header |-> e.name, operation |-> "remove", value |-> <<>>] >>
                ELSE << [header |-> e.name, operation |-> "set", value |-> <<e.value>>] >>
       IN d \o ExpectedDirectives(Tail(edits))

\* C8: the directive list of every rule update an execute issues holds, in
\* input order, one directive per header edit that is enabled and named:
\* "set" with the value when the value is non-empty or remove-if-empty is
\* false, "remove" without a value otherwise; other edits yield none.
C8_DirectivesFollowHeaderEdits ==
  \A i \in DOMAIN dnr :
    dnr[i].by # 0 =>
      CallDirectives(dnr[i]) = ExpectedDirectives(handlers[dnr[i].by].data.headers)

\* a pending update whose two header edits were a dropped one and one that
\* became a "remove" directive
C8_Witness ==
  \E i \in DOMAIN dnr :
    /\ dnr[i].by # 0
    /\ Len(handlers[dnr[i].by].data.headers) = 2
    /\ Len(CallDirectives(dnr[i])) = 1
    /\ CallDirectives(dnr[i])[1].operation = "remove"

\* the synthetic directive the claims ascribe to an edited snapshot
ExpectedSynthetic(d) ==
  IF /\ d.method \in BodyAvailableMethods
     /\ \E i \in DOMAIN Processors :
          /\ Processors[i].name = d.body.enctype
          /\ Processors[i].formEnctype # Processors[i].httpContentType
  THEN LET c == CHOOSE c \in Range(Processors) : c.name = d.body.enctype
       IN << [header |-> "content-type", operation |-> "set",
              value |-> <<c.httpContentType>>] >>
  ELSE <<>>

\* C9: the rule update an accepted execute issues carries the directives of
\* the user's header edits followed by exactly one synthetic "set
\* content-type" directive when the method carries a body and the codec's
\* form enctype differs from its HTTP content type, and by none otherwise.
C9_OneSyntheticContentType ==
  [][ (last'.op = "execute" /\ last'.err = "none") =>
        \A p \in Peers, t \in Tabs, d \in AllExecuteData :
          ExecuteMessage(p, t, d) =>
            CallDirectives(dnr'[Len(dnr')])
              = ExpectedDirectives(d.headers) \o ExpectedSynthetic(d) ]_vars

\* a pending update of a body-carrying execute with one user directive
\* followed by the synthetic content-type directive
C9_Witness ==
  \E i \in DOMAIN dnr :
    /\ dnr[i].by # 0
    /\ handlers[dnr[i].by].data.method \in BodyAvailableMethods
    /\ Len(CallDirectives(dnr[i])) = 2
    /\ CallDirectives(dnr[i])[1].header = "X-A"
    /\ CallDirectives(dnr[i])[2] =
         [header |-> "content-type", operation |-> "set",
          value |-> <<"application/json">>]

\* what the session store and the rule table hold for one session
SessionState(t) ==
  << IF t \in DOMAIN browseRequests THEN <<browseRequests[t]>> ELSE <<>>,
     IF t \in DOMAIN connections THEN <<connections[t]>> ELSE <<>>,
     RulesOf(t) >>

\* C10: a step taken for session S (an event, a command, a host call made
\* for S settling either way, a handler of S resuming) leaves the Session
\* Store entry and the active rule of every other session unchanged.
C10_OtherSessionsUntouched ==
  [][ \A u \in Tabs : u # last'.tab => SessionState(u)' = SessionState(u) ]_vars

\* the rule update of an execute of one session has just been applied
\* while another session has a snapshot, a connection and a rule
C10_Witness ==
  \E t \in Tabs, u \in Tabs :
    /\ t # u
    /\ last.op = "host" /\ last.tab = t /\ RulesOf(t) # {}
    /\ u \in DOMAIN browseRequests /\ u \in DOMAIN connections
    /\ RulesOf(u) # {}

\* C11: when the in-page submit of an execute reports an error string, the
\* handler posts exactly one error notification carrying it to the peer of
\* the session and neither changes the rule table nor issues a rule update;
\* when the submit reports null, the handler posts nothing.
C11_SubmitErrorIsForwarded ==
  [][ \A h \in DOMAIN handlers :
        (/\ handlers[h].type = "execute"
         /\ handlers[h].pc = "send"
         /\ Continue(h))
        => /\ handlers[h].res = "error" =>
                /\ Len(last'.post) = 1
                /\ last'.post[1].type = "error"
                /\ last'.post[1].data = <<"submit failed">>
                /\ handlers[h].tabId \in DOMAIN connections
                /\ last'.post[1].to = connections[handlers[h].tabId]
                /\ sessionRules' = sessionRules /\ dnr' = dnr
           /\ handlers[h].res = "null" => last'.post = NoPost ]_vars

\* the string the claims ascribe to one raw segment
ExpectedSegment(seg) ==
  IF seg.file # "" THEN "[Content of '" \o seg.file \o "']"
  ELSE IF seg.bytes = <<>> THEN ""
  ELSE decode(seg.bytes[1])

RECURSIVE ExpectedRaw(_)
ExpectedRaw(segs) ==
  IF segs = <<>> THEN ""
  ELSE ExpectedSegment(Head(segs)) \o ExpectedRaw(Tail(segs))

\* C12: a request-initiation event exposing raw body segments is captured
\* with a body content that is the in-order concatenation of one string per
\* segment (the placeholder naming the file, the empty string for a segment
\* with neither file nor bytes, the decoded bytes otherwise); the segments
\* "hello " then file f.bin yield "hello [Content of 'f.bin']".
C12_RawSegmentsAreConcatenated ==
  [][ \A t \in Tabs, d \in RequestDetails \cup RawDetails :
        (d.requestBody.kind = "raw" /\ BeforeRequest(t, d))
        => /\ browseRequests'[t].body.content = ExpectedRaw(d.requestBody.raw)
           /\ d.requestBody.raw
                = << [file |-> "", bytes |-> << <<104, 101, 108, 108, 111, 32>> >>],
                     [file |-> "f.bin", bytes |-> <<>>] >>
              => browseRequests'[t].body.content = "hello [Content of 'f.bin']"
     ]_vars

\* a capture has just stored the content of the segments "hello " and f.bin
C12_Witness ==
  /\ last.op = "capture"
  /\ last.tab \in DOMAIN browseRequests
  /\ browseRequests[last.tab].body.content = "hello [Content of 'f.bin']"

\* a host call of the replay trigger of handler h settles
ReplayStep(h) ==
  \/ \E a \in BOOLEAN : HostExecuteScript(h, a)
  \/ \E a \in {"null", "error", "rejected"} : HostSendMessage(h, a)
  \/ \E a \in BOOLEAN : HostTabsUpdate(h, a)

\* C13: the replay trigger of an execute (script injection and page submit,
\* or tab navigation) is only ever made by a handler whose rule update has
\* settled, and a handler resumes past its rule update only when the update
\* was accepted; when it was rejected the handler ends and nothing is
\* injected, submitted or navigated.
C13_ReplayOnlyAfterActivation ==
  [][ \A h \in DOMAIN handlers :
        handlers[h].type = "execute" =>
          /\ ReplayStep(h) =>
               /\ handlers[h].pc # "rules"
               /\ \A i \in DOMAIN dnr : dnr[i].by # h
          /\ (handlers[h].pc = "rules" /\ Continue(h)) =>
               IF handlers[h].res = "ok"
               THEN /\ h \in DOMAIN handlers'
                    /\ handlers'[h].pc \in {"script", "nav"}
               ELSE /\ h \notin DOMAIN handlers'
                    /\ injected' = injected /\ nav' = nav ]_vars

\* an execute whose rule is active has injected the script and awaits the
\* answer of the page
C13_Witness ==
  \E h \in DOMAIN handlers :
    /\ handlers[h].type = "execute" /\ handlers[h].pc = "send"
    /\ handlers[h].owns
    /\ handlers[h].tabId \in injected

\* the method of a request event in upper case
ExpectedMethod(m) ==
  IF m \in {"get", "GET"} THEN "GET"
  ELSE IF m \in {"post", "Post", "POST"} THEN "POST"
  ELSE m

\* C14: after a capture event for S the snapshot of S is the event's url,
\* its method in upper case, its reconstructed body content, the name of
\* the default codec as enctype and no headers, whatever was stored before.
C14_CaptureOverwritesSnapshot ==
  [][ \A t \in Tabs, d \in RequestDetails \cup RawDetails :
        BeforeRequest(t, d)
        => /\ t \in DOMAIN browseRequests'
           /\ browseRequests'[t] =
                [url |-> d.url,
                 method |-> ExpectedMethod(d.method),
                 body |-> [enctype |-> Processors[1].name,
                           content |-> bodyContent(d.requestBody)],
                 headers |-> <<>>] ]_vars

\* a capture has just replaced the snapshot of an earlier request of the
\* session, whose terminal event is still being handled
C14_Witness ==
  /\ last.op = "capture"
  /\ last.tab \in DOMAIN browseRequests
  /\ browseRequests[last.tab].method = "POST"
  /\ \E i \in DOMAIN dnr : dnr[i].by = 0 /\ dnr[i].tabId = last.tab

\* the content-type headers of a header list, names compared without case
ContentTypeValues(hs) ==
  SelectSeq(hs, LAMBDA h : h.name \in {"content-type", "Content-Type", "CONTENT-TYPE"})

\* the codec name the claims ascribe to a content-type value
ExpectedEnctype(v) ==
  IF \E i \in DOMAIN Processors : Processors[i].httpContentType = MediaType(v)
  THEN Processors[CHOOSE i \in DOMAIN Processors :
                    /\ Processors[i].httpContentType = MediaType(v)
                    /\ \A j \in 1..(i - 1) :
                         Processors[j].httpContentType # MediaType(v)].name
  ELSE Processors[1].name

\* C15: a header-send event for a session with a stored snapshot raises no
\* error, leaves the rule table and the other entries of the store alone,
\* and changes at most body.enctype of the snapshot: nothing when the
\* headers hold no content-type header, else the name of the codec matching
\* the header value, or of the default codec when none matches.
C15_HeaderSendRefinesEnctypeOnly ==
  [][ \A t \in Tabs, hs \in RequestHeaders :
        (t \in DOMAIN browseRequests /\ BeforeSendHeaders(t, hs))
        => /\ last'.err = "none"
           /\ sessionRules' = sessionRules /\ dnr' = dnr
           /\ DOMAIN browseRequests' = DOMAIN browseRequests
           /\ \A u \in DOMAIN browseRequests :
                u # t => browseRequests'[u] = browseRequests[u]
           /\ browseRequests'[t] =
                IF ContentTypeValues(hs) = <<>> THEN browseRequests[t]
                ELSE [url |-> browseRequests[t].url,
                      method |-> browseRequests[t].method,
                      headers |-> browseRequests[t].headers,
                      body |-> [content |-> browseRequests[t].body.content,
                                enctype |-> ExpectedEnctype(
                                              ContentTypeValues(hs)[1].value)]]
     ]_vars

\* a header-send with a mixed-case Content-Type header has just refined the
\* enctype of a snapshot with a body
C15_Witness ==
  /\ last.op = "sendHeaders" /\ last.err = "none"
  /\ last.tab \in DOMAIN browseRequests
  /\ browseRequests[last.tab].body.enctype = "application/json"
  /\ browseRequests[last.tab].body.content # ""

\* the rule the claims ascribe to session t and a directive list
ExpectedRules(t, ds) ==
  IF ds = <<>> THEN {}
  ELSE { [id |-> t,
          action |-> [type |-> "modifyHeaders", requestHeaders |-> ds],
          condition |-> [tabIds |-> <<t>>, resourceTypes |-> <<"main_frame">>]] }

\* C16: when the host accepts the rule update of an execute for S, the
\* rules active for S are then: none, exactly when the command has no
\* directive; else the one rule with id S, scoped to tab S and main_frame,
\* carrying exactly the command's directives.
C16_ActivationReplacesRule ==
  [][ (/\ dnr # <<>>
       /\ Head(dnr).by # 0
       /\ HostUpdateSessionRules(TRUE))
      => \A t \in Tabs :
           t = Head(dnr).tabId =>
             RulesOf(t)'
               = ExpectedRules(t,
                   ExpectedDirectives(handlers[Head(dnr).by].data.headers)) ]_vars

\* the update of an execute with two directives has just been accepted
C16_Witness ==
  \E h \in DOMAIN handlers :
    /\ handlers[h].type = "execute"
    /\ handlers[h].pc = "rules" /\ handlers[h].res = "ok"
    /\ handlers[h].owns
    /\ \E r \in RulesOf(handlers[h].tabId) : Len(r.action.requestHeaders) = 2

\* C17: an execute triggers one kind of replay, chosen by its method: a
\* body-carrying method injects the script, then submits to the page, and
\* never navigates the tab; any other method navigates the tab, injects and
\* submits nothing, and is never refused for its enctype.
C17_ReplayKindFollowsMethod ==
  [][ /\ \A h \in DOMAIN handlers :
           handlers[h].type = "execute" =>
             LET body == handlers[h].data.method \in {"POST"}
             IN /\ (\E a \in BOOLEAN : HostTabsUpdate(h, a)) => ~body
                /\ (\E a \in BOOLEAN : HostExecuteScript(h, a)) => body
                /\ (\E a \in {"null", "error", "rejected"} : HostSendMessage(h, a))
                     => body
                /\ (Continue(h) /\ handlers[h].res # "rejected") =>
                     CASE handlers[h].pc = "rules" ->
                            /\ h \in DOMAIN handlers'
                            /\ handlers'[h].pc = IF body THEN "script" ELSE "nav"
                       [] handlers[h].pc = "script" ->
                            /\ h \in DOMAIN handlers'
                            /\ handlers'[h].pc = "send"
                       [] OTHER -> h \notin DOMAIN handlers'
      /\ \A p \in Peers, t \in Tabs, d \in AllExecuteData :
           (d.method \notin {"POST"} /\ ExecuteMessage(p, t, d))
           => /\ last'.err = "none"
              /\ Len(dnr') = Len(dnr) + 1 ]_vars

\* an execute with a method that carries no body and an enctype that names
\* no codec has navigated the tab
C17_Witness ==
  \E h \in DOMAIN handlers :
    /\ handlers[h].type = "execute"
    /\ handlers[h].data.method = "GET"
    /\ handlers[h].data.body.enctype = "text/xml"
    /\ handlers[h].pc = "nav" /\ handlers[h].res = "ok"
    /\ nav[handlers[h].tabId] # "none"

\* C18: every stored snapshot has no headers and the name of a registered
\* codec as enctype; the store changes only at a capture, a header-send or
\* a tab removal, never at a load, execute or test command nor at a step of
\* their handlers; a load posts the stored snapshot as it is.
C18_SnapshotsAreCaptureShaped ==
  /\ [](\A t \in DOMAIN browseRequests :
          /\ browseRequests[t].headers = <<>>
          /\ \E i \in DOMAIN Processors :
               Processors[i].name = browseRequests[t].body.enctype)
  /\ [](last.op = "load" =>
          /\ Len(last.post) = 1
          /\ last.post[1].type = "load"
          /\ last.post[1].data =
               IF last.tab \in DOMAIN browseRequests
               THEN <<browseRequests[last.tab]>> ELSE <<>>)
  /\ [][ browseRequests' # browseRequests
           => last'.op \in {"capture", "sendHeaders", "tabRemoved"} ]_vars

\* a load has just returned the captured snapshot of a session for which an
\* execute has activated a rule
C18_Witness ==
  /\ last.op = "load"
  /\ last.tab \in DOMAIN browseRequests
  /\ last.post # NoPost
  /\ last.post[1].data = <<browseRequests[last.tab]>>
  /\ browseRequests[last.tab].body.enctype = "application/json"
  /\ RulesOf(last.tab) # {}

\* C19: the request replayed by an execute that activated a rule sends its
\* headers with a rule of the session active (the rule of that execute,
\* unless a later execute has replaced it): no terminal event of an earlier
\* request of the session tears the rule down in between.
C19_TeardownNeverRacesReplay ==
  \A t \in Tabs :
    (req[t].origin = "replay" /\ req[t].phase = "sent")
    => req[t].applied # "none"

\* C20: a control message attaches its sender as the connection of its
\* session before it is dispatched; the stored connection of every session
\* is a peer that is still connected, and no notification is posted to a
\* peer that has disconnected.
C20_ConnectionIsAlwaysAttached ==
  /\ last.op \in {"load", "execute", "test"} =>
       /\ last.tab \in DOMAIN connections
       /\ \A i \in DOMAIN last.post : last.post[i].to = connections[last.tab]
  /\ \A t \in DOMAIN connections : ports[connections[t]] = "open"
  /\ \A i \in DOMAIN last.post : ports[last.post[i].to] = "open"

====
